---------------------------- MODULE Spec2Model ----------------------------
(***************************************************************************)
(* Model of the Kafka client facade of grafana-kafka-datasource.           *)
(*                                                                         *)
(* The repository holds two editions of the client:                        *)
(*   src/unnamed/part_000            NewConnection is a separate call,     *)
(*                                   "earliest" is a bounded lookback read *)
(*                                   from the partition leader, the reader *)
(*                                   has no consumer group, Dispose guards *)
(*                                   a nil reader;                         *)
(*   src/pkg/kafka_client/client.go  TopicAssign builds the dialer itself, *)
(*                                   "earliest" is kafka.FirstOffset, the  *)
(*                                   reader joins a consumer group,        *)
(*                                   Dispose does not guard.               *)
(* The variable impl says which edition the running client was built from; *)
(* operations whose code differs have one action per edition, operations   *)
(* whose code is the same in both (ConsumerPull, HealthCheck) have one.    *)
(* IsTopicExists exists in part_000 only.                                  *)
(*                                                                         *)
(* The broker and the kafka-go reader are the environment: a partition is  *)
(* a retained window [low, high) of offsets, a reader is a cursor into it. *)
(***************************************************************************)
EXTENDS Integers, Sequences, FiniteSets, TLC

VARIABLES
    impl,       \* edition of the client: "part_000" or "client.go"
    client,     \* the KafkaClient struct of the current session
    readers,    \* every kafka.Reader the process opened, in order of creation
    low,        \* broker: low watermark of each partition
    high,       \* broker: high watermark (next offset to be written)
    committed,  \* broker: offset committed by the consumer group, per partition
    pull,       \* the ConsumerPull call in progress, if any
    hc,         \* the HealthCheck call in progress or last returned
    last,       \* outcome of the last operation that returned
    fault,      \* the panic that ended the process, or "none"
    pulls,      \* number of ConsumerPull calls so far
    produced    \* number of messages appended by producers so far

vars == <<impl, client, readers, low, high, committed, pull, hc,
          last, fault, pulls, produced>>

-----------------------------------------------------------------------------
(* Bounds of the model *)

MaxReaders == 2
MaxProduce == 1
MaxPulls == 2
MaxTimeoutSteps == 7
MaxFails == 4

-----------------------------------------------------------------------------
(* Program constants *)

maxEarliest == 100
consumerGroupID == "kafka-datasource"
LastOffset == -1
FirstOffset == -2
TickInterval == 200
debugLogLevel == <<"d", "e", "b", "u", "g">>
errorLogLevel == <<"e", "r", "r", "o", "r">>

Editions == {"part_000", "client.go"}
Topics == {"metrics"}
Partitions == {0, 1}
SessionPartitions == {0}
SessionPolicies == {"latest", "earliest"}
Policies == {"latest", "earliest", "newest"}
TimestampModes == {"message"}
Mechanisms == {"", "PLAIN", "SCRAM-SHA-256", "SCRAM-SHA-512", "GSSAPI"}

\* the mechanism names that have a case in getSASLMechanism
SupportedMechanisms == {"", "PLAIN", "SCRAM-SHA-256", "SCRAM-SHA-512"}
SecurityProtocols == {"PLAINTEXT", "SASL_SSL"}

\* retained windows the partitions start with: high - low below, at and above
\* maxEarliest
WatermarkCases == {<<3, 5>>, <<3, 103>>, <<3, 104>>}

\* health-check timeouts in milliseconds: between, at and beyond the ticks;
\* HealthcheckTimeout is an int32, so it may be negative
Timeouts == {k * 100 : k \in -1 .. MaxTimeoutSteps}
SessionTimeouts == {300}
SessionMechanisms == {"PLAIN", "GSSAPI"}
SessionProtocols == {"SASL_SSL"}

\* Log levels are strings of letters. The letters that occur, in lower and in
\* upper case:
LowerLetters == <<"d", "e", "b", "u", "g", "r", "o", "w", "a", "n">>
UpperLetters == <<"D", "E", "B", "U", "G", "R", "O", "W", "A", "N">>

\* every spelling of a word in mixed letter case
CaseVariants(word) ==
    {[i \in 1 .. Len(word) |->
         IF i \in up
         THEN UpperLetters[CHOOSE k \in 1 .. Len(LowerLetters) :
                              LowerLetters[k] = word[i]]
         ELSE word[i]] : up \in SUBSET (1 .. Len(word))}

\* the configured log levels: "debug" and "error" in every letter case, the
\* empty level, "warn", "WARN", and words one letter short or long of "debug"
LogLevels ==
    CaseVariants(debugLogLevel) \cup CaseVariants(errorLogLevel)
      \cup {<<>>, <<"w", "a", "r", "n">>, <<"W", "A", "R", "N">>,
            <<"d", "e", "b", "u">>, <<"d", "e", "b", "u", "g", "g">>,
            <<"e", "r", "r", "o", "r", "e">>}
SessionLogLevels == {<<>>}

\* topic names asked for and listed by the cluster; "T2" and "t2" differ only in
\* letter case
TopicNames == {"t1", "t2", "T2", "t3"}
ListedNames == {"t1", "t2", "T2"}

\* how long one dial takes, in milliseconds (the dialer gives up after 10 s)
DialDurations == {0, 100, 300}

-----------------------------------------------------------------------------
(* Values *)

NilDialer == [set |-> FALSE, SASLMechanism |-> "", TLS |-> FALSE]

NoReader == 0

NoCall == [op |-> "none", err |-> "nil"]

IdlePull == [pc |-> "idle", canceled |-> FALSE]

\* tied says that some select of the call found the deadline and a tick due at
\* the same instant;
\* timer is the timer behind time.After ("none" before it is created, then
\* "pending" until it is "fired" or "collected"), ticker the time.Ticker, conns the number of
\* broker connections the call holds open, durs how long each dial took.
IdleHC == [pc |-> "idle", now |-> 0, lastRecv |-> 0, err |-> "nil",
           dials |-> 0, N |-> 0, listOK |-> TRUE, slow |-> FALSE,
           result |-> "none", lastDialAt |-> 0,
           timer |-> "none", ticker |-> "none", conns |-> 0, durs |-> <<>>,
           tied |-> FALSE]


-----------------------------------------------------------------------------
(* Construction *)

\* NewKafkaClient: the struct echoes the options; Dialer and Reader are nil.
NewKafkaClient(options) ==
    [Dialer |-> NilDialer,
     Reader |-> NoReader,
     TimestampMode |-> "",
     SecurityProtocol |-> options.SecurityProtocol,
     SaslMechanisms |-> options.SaslMechanisms,
     LogLevel |-> options.LogLevel,
     HealthcheckTimeout |-> options.HealthcheckTimeout]

Options(protocols, mechanisms, timeouts, levels) ==
    [SecurityProtocol : protocols,
     SaslMechanisms : mechanisms,
     LogLevel : levels,
     HealthcheckTimeout : timeouts]

\* getSASLMechanism: the mechanism to attach, or an error for a name outside
\* PLAIN, SCRAM-SHA-256, SCRAM-SHA-512 and "".
getSASLMechanism(c) ==
    CASE c.SaslMechanisms = "PLAIN" -> [mechanism |-> "PLAIN", err |-> "nil"]
      [] c.SaslMechanisms = "SCRAM-SHA-256" ->
             [mechanism |-> "SCRAM-SHA-256", err |-> "nil"]
      [] c.SaslMechanisms = "SCRAM-SHA-512" ->
             [mechanism |-> "SCRAM-SHA-512", err |-> "nil"]
      [] c.SaslMechanisms = "" -> [mechanism |-> "", err |-> "nil"]
      [] OTHER -> [mechanism |-> "", err |-> "unsupported mechanism SASL"]

\* NewConnection (part_000) and consumerInitialize (client.go): build a dialer
\* and store it in the client; on a mechanism error the client is untouched.
NewConnection(c) ==
    LET m == IF c.SaslMechanisms # ""
             THEN getSASLMechanism(c)
             ELSE [mechanism |-> "", err |-> "nil"]
    IN  IF m.err # "nil"
        THEN [client |-> c, err |-> "unable to get sasl mechanism"]
        ELSE [client |-> [c EXCEPT !.Dialer =
                              [set |-> TRUE,
                               SASLMechanism |-> m.mechanism,
                               TLS |-> (c.SecurityProtocol = "SASL_SSL")]],
              err |-> "nil"]

-----------------------------------------------------------------------------
(* getKafkaLogger *)

\* strings.ToLower on one letter: an upper-case letter becomes its lower-case
\* letter, any other is kept.
LowerRune(c) ==
    IF \E k \in 1 .. Len(UpperLetters) : UpperLetters[k] = c
    THEN LowerLetters[CHOOSE k \in 1 .. Len(UpperLetters) : UpperLetters[k] = c]
    ELSE c

\* strings.ToLower
ToLower(level) == [i \in 1 .. Len(level) |-> LowerRune(level[i])]

\* A resolver that compares the level as it is written.
getKafkaLogger_exact(level) ==
    CASE level = debugLogLevel -> [logger |-> "debug", errorLogger |-> "error"]
      [] level = errorLogLevel -> [logger |-> "noop", errorLogger |-> "error"]
      [] OTHER -> [logger |-> "noop", errorLogger |-> "noop"]

\* getKafkaLogger: the two sinks for a level; "noop" is the sink that drops
\* what it is given.
getKafkaLogger(level) ==
    CASE ToLower(level) = debugLogLevel ->
             [logger |-> "debug", errorLogger |-> "error"]
      [] ToLower(level) = errorLogLevel ->
             [logger |-> "noop", errorLogger |-> "error"]
      [] OTHER -> [logger |-> "noop", errorLogger |-> "noop"]

-----------------------------------------------------------------------------
(* The kafka.Reader *)

\* A reader as newReader of part_000 configures it: no GroupID, so it never
\* commits; it starts its fetch loop only on the first ReadMessage. Its two
\* log sinks are resolved from the client's log level.
newReader_part000(topic, partition) ==
    [topic |-> topic, partition |-> partition,
     group |-> "", pos |-> FirstOffset, started |-> FALSE,
     closed |-> FALSE,
     Logger |-> getKafkaLogger(client.LogLevel).logger,
     ErrorLogger |-> getKafkaLogger(client.LogLevel).errorLogger]

\* A reader as newReader of client.go configures it: GroupID is set, so the
\* reader joins the consumer group at once and StartOffset applies only when
\* the group has no committed offset.
newReader_client(topic, partition, offset) ==
    [topic |-> topic, partition |-> partition,
     group |-> consumerGroupID, pos |-> offset, started |-> TRUE,
     closed |-> FALSE,
     Logger |-> getKafkaLogger(client.LogLevel).logger,
     ErrorLogger |-> getKafkaLogger(client.LogLevel).errorLogger]

\* Reader.SetOffset without a consumer group: the cursor moves to offset.
SetOffset(r, offset) == [r EXCEPT !.pos = offset]

\* A lookback with no bound: always the low watermark.
ResolveEarliest_unbounded(lo, hi) == lo

\* The bounded lookback of TopicAssign (part_000).
ResolveEarliest(lo, hi) ==
    IF hi - lo > maxEarliest THEN hi - maxEarliest ELSE lo

\* A switch whose default branch is the earliest offset.
ResolveOffset_client_first(autoOffsetReset) ==
    CASE autoOffsetReset = "latest" -> LastOffset
      [] OTHER -> FirstOffset

\* The offset TopicAssign (client.go) hands to newReader.
ResolveOffset_client(autoOffsetReset) ==
    CASE autoOffsetReset = "latest" -> LastOffset
      [] autoOffsetReset = "earliest" -> FirstOffset
      [] OTHER -> LastOffset

\* No call is in progress and the process has not panicked.
Ready == fault = "none" /\ pull.pc = "idle" /\ hc.pc # "probing"

-----------------------------------------------------------------------------
(* TopicAssign *)

\* The record of a TopicAssign call that returned: answer is what the broker
\* did with the call's round trips, dials how many the call made, offset the
\* offset the reader was given.
Assigned(topic, partition, autoOffsetReset, answer, err, dials, offset) ==
    [op |-> "TopicAssign", err |-> err, topic |-> topic,
     partition |-> partition, policy |-> autoOffsetReset, answer |-> answer,
     dials |-> dials, offset |-> offset]

\* What the broker may do with the round trips of a policy: "earliest" dials
\* the leader and reads the watermarks, and either may fail.
Answers(autoOffsetReset) ==
    IF autoOffsetReset = "earliest"
    THEN {"dial_error", "read_error", "ok"}
    ELSE {"none"}

\* A switch that drops the error of ReadOffsets and goes on with the zero
\* watermarks.
ResolveOffset_part000_ignore(autoOffsetReset, answer, lo, hi) ==
    CASE autoOffsetReset = "latest" ->
             [err |-> "nil", offset |-> LastOffset, dials |-> 0]
      [] autoOffsetReset = "earliest" ->
             IF answer = "dial_error"
             THEN [err |-> "unable to dial leader", offset |-> 0, dials |-> 1]
             ELSE IF answer = "read_error"
             THEN [err |-> "nil", offset |-> 0, dials |-> 2]
             ELSE [err |-> "nil", offset |-> ResolveEarliest(lo, hi),
                   dials |-> 2]
      [] OTHER -> [err |-> "nil", offset |-> LastOffset, dials |-> 0]

\* The offset switch of TopicAssign (part_000), given the broker's answer and
\* the watermarks lo, hi it would report.
ResolveOffset_part000(autoOffsetReset, answer, lo, hi) ==
    CASE autoOffsetReset = "latest" ->
             [err |-> "nil", offset |-> LastOffset, dials |-> 0]
      [] autoOffsetReset = "earliest" ->
             IF answer = "dial_error"
             THEN [err |-> "unable to dial leader", offset |-> 0, dials |-> 1]
             ELSE IF answer = "read_error"
             THEN [err |-> "unable to read offsets", offset |-> 0, dials |-> 2]
             ELSE [err |-> "nil", offset |-> ResolveEarliest(lo, hi),
                   dials |-> 2]
      [] OTHER -> [err |-> "nil", offset |-> LastOffset, dials |-> 0]

\* TopicAssign of part_000. It uses the dialer an earlier NewConnection or
\* HealthCheck stored; "earliest" dials the partition leader through it (a nil
\* dialer is dereferenced there). The reader is created after the offset is
\* resolved, and only then.
TopicAssign_part000(topic, partition, autoOffsetReset, timestampMode) ==
    /\ impl = "part_000"
    /\ Ready
    /\ Len(readers) < MaxReaders
    /\ LET c1 == [client EXCEPT !.TimestampMode = timestampMode]
       IN  IF autoOffsetReset = "earliest" /\ ~client.Dialer.set
           THEN /\ client' = c1
                /\ fault' = "TopicAssign: nil Dialer"
                /\ UNCHANGED <<readers, last>>
           ELSE \E answer \in Answers(autoOffsetReset) :
                   LET res == ResolveOffset_part000(autoOffsetReset, answer,
                                  low[partition], high[partition])
                   IN  /\ last' = Assigned(topic, partition, autoOffsetReset,
                                      answer, res.err, res.dials, res.offset)
                       /\ UNCHANGED fault
                       /\ IF res.err # "nil"
                          THEN /\ client' = c1
                               /\ UNCHANGED readers
                          ELSE /\ readers' = Append(readers,
                                      SetOffset(newReader_part000(topic,
                                                    partition), res.offset))
                               /\ client' = [c1 EXCEPT
                                                !.Reader = Len(readers) + 1]
    /\ hc' = IdleHC
    /\ UNCHANGED <<impl, low, high, committed, pull, pulls, produced>>

\* TopicAssign of client.go. It builds its own dialer; kafka.NewReader panics
\* when both GroupID and a partition other than 0 are configured.
TopicAssign_client(topic, partition, autoOffsetReset, timestampMode) ==
    /\ impl = "client.go"
    /\ Ready
    /\ Len(readers) < MaxReaders
    /\ LET c1 == [client EXCEPT !.TimestampMode = timestampMode]
           init == NewConnection(c1)
           offset == ResolveOffset_client(autoOffsetReset)
       IN  IF init.err # "nil"
           THEN /\ client' = init.client
                /\ last' = Assigned(topic, partition, autoOffsetReset,
                                    "none",
                                    "unable to initialize Kafka client", 0, 0)
                /\ UNCHANGED <<readers, fault>>
           ELSE IF partition # 0
           THEN /\ client' = init.client
                /\ fault' = "NewReader: Partition and GroupID"
                /\ UNCHANGED <<readers, last>>
           ELSE /\ readers' = Append(readers,
                       newReader_client(topic, partition, offset))
                /\ client' = [init.client EXCEPT !.Reader = Len(readers) + 1]
                /\ last' = Assigned(topic, partition, autoOffsetReset,
                                    "none", "nil", 0, offset)
                /\ UNCHANGED <<fault>>
    /\ UNCHANGED <<impl, low, high, committed, pull, pulls,
                   produced>>
    /\ hc' = IdleHC

\* NewConnection called by the user of part_000 (the method is exported).
CallNewConnection ==
    /\ impl = "part_000"
    /\ Ready
    /\ LET r == NewConnection(client)
       IN  /\ client' = r.client
           /\ last' = [op |-> "NewConnection", err |-> r.err]
    /\ UNCHANGED <<impl, readers, low, high, committed, pull, fault, pulls, produced>>
    /\ hc' = IdleHC

-----------------------------------------------------------------------------
(* Dispose *)

\* Reader.Close: the first call closes the reader, later calls find it closed.
Close(r) == [r EXCEPT !.closed = TRUE]

\* Dispose of part_000: a nil reader is skipped.
Dispose_part000 ==
    /\ impl = "part_000"
    /\ Ready
    /\ readers' = IF client.Reader # NoReader
                  THEN [readers EXCEPT
                           ![client.Reader] = Close(readers[client.Reader])]
                  ELSE readers
    /\ last' = [op |-> "Dispose", err |-> "nil"]
    /\ UNCHANGED <<impl, client, low, high, committed, pull, fault, pulls, produced>>
    /\ hc' = IdleHC

\* Dispose of client.go: Close is called on whatever client.Reader holds; on a
\* nil *kafka.Reader that is a nil pointer dereference.
Dispose_client ==
    /\ impl = "client.go"
    /\ Ready
    /\ IF client.Reader = NoReader
       THEN /\ fault' = "Dispose: nil Reader"
            /\ UNCHANGED <<readers, last>>
       ELSE /\ readers' = [readers EXCEPT
                              ![client.Reader] = Close(readers[client.Reader])]
            /\ last' = [op |-> "Dispose", err |-> "nil"]
            /\ UNCHANGED fault
    /\ UNCHANGED <<impl, client, low, high, committed, pull, pulls, produced>>
    /\ hc' = IdleHC

-----------------------------------------------------------------------------
(* The broker and the reader's fetch loop *)

\* A producer appends one message to a partition.
Produce(partition) ==
    /\ fault = "none"
    /\ produced < MaxProduce
    /\ produced' = produced + 1
    /\ high' = [high EXCEPT ![partition] = @ + 1]
    /\ UNCHANGED <<impl, client, readers, low, committed, pull, hc,
                   last, fault, pulls>>

\* Where a reader whose cursor is still a sentinel begins: a group reader at
\* the group's committed offset when there is one, else FirstOffset at the low
\* watermark and LastOffset at the high watermark.
StartPosition(r) ==
    IF r.group # "" /\ committed[r.partition] >= 0
    THEN committed[r.partition]
    ELSE IF r.pos = FirstOffset THEN low[r.partition] ELSE high[r.partition]

\* The fetch loop of a started reader resolves its sentinel.
ReaderStart(i) ==
    /\ fault = "none"
    /\ readers[i].started
    /\ ~readers[i].closed
    /\ readers[i].pos < 0
    /\ readers' = [readers EXCEPT ![i] =
                      [@ EXCEPT !.pos = StartPosition(readers[i])]]
    /\ UNCHANGED <<impl, client, low, high, committed, pull, hc,
                   last, fault, pulls, produced>>

-----------------------------------------------------------------------------
(* ConsumerPull *)

\* Message bodies, by their JSON structure: the top-level value and, for an
\* object, the kinds of its members' values.
Bodies ==
    { [top |-> "object", members |-> <<"number", "number">>],
      [top |-> "object", members |-> <<"string">>],
      [top |-> "object", members |-> <<"number", "null">>],
      [top |-> "null", members |-> <<>>],
      [top |-> "invalid", members |-> <<>>] }

\* The spec's notion of a decodable body: a flat string-to-number object.
IsFlatNumeric(body) ==
    /\ body.top = "object"
    /\ \A k \in 1 .. Len(body.members) : body.members[k] = "number"

\* json.Unmarshal into a map[string]float64. Invalid JSON is a syntax error; a
\* JSON null leaves the map nil without error; in an object a number is
\* stored, a null member is stored as 0 without error, and any other member
\* is skipped and reported as a type error once the object has been read.
Unmarshal(body) ==
    CASE body.top = "invalid" ->
             [err |-> "syntax error", isNil |-> TRUE, Value |-> <<>>]
      [] body.top = "null" ->
             [err |-> "nil", isNil |-> TRUE, Value |-> <<>>]
      [] body.top = "object" ->
             [err |-> IF \E k \in 1 .. Len(body.members) :
                            body.members[k] \notin {"number", "null"}
                      THEN "type error" ELSE "nil",
              isNil |-> FALSE,
              Value |-> [k \in 1 .. Len(body.members) |->
                            IF body.members[k] = "number" THEN "number"
                            ELSE IF body.members[k] = "null" THEN "zero"
                            ELSE "absent"]]
      [] OTHER -> [err |-> "type error", isNil |-> TRUE, Value |-> <<>>]

\* ConsumerPull is called: ReadMessage starts the fetch loop of a reader that
\* has none yet, then waits. A nil reader is dereferenced.
ConsumerPull ==
    /\ Ready
    /\ pulls < MaxPulls
    /\ pulls' = pulls + 1
    /\ IF client.Reader = NoReader
       THEN /\ fault' = "ConsumerPull: nil Reader"
            /\ UNCHANGED <<readers, pull>>
       ELSE /\ pull' = [pc |-> "pulling", canceled |-> FALSE]
            /\ readers' = [readers EXCEPT ![client.Reader].started = TRUE]
            /\ UNCHANGED fault
    /\ UNCHANGED <<impl, client, low, high, committed, last,
                   produced>>
    /\ hc' = IdleHC

\* The caller cancels the context of the pull in progress.
Cancel ==
    /\ pull.pc = "pulling"
    /\ ~pull.canceled
    /\ pull' = [pull EXCEPT !.canceled = TRUE]
    /\ UNCHANGED <<impl, client, readers, low, high, committed, hc,
                   last, fault, pulls, produced>>

\* The body of no message.
NoBody == [top |-> "none", members |-> <<>>]

\* The record of a ConsumerPull call that returned: err is the error returned,
\* fetched the offset of the message ReadMessage consumed (-1 for none), body
\* its body, Value and isNil the decoded map handed back.
Pulled(err, fetched, body, value, isNil, available) ==
    [op |-> "ConsumerPull", err |-> err, fetched |-> fetched, body |-> body,
     Value |-> value, isNil |-> isNil, available |-> available,
     canceled |-> pull.canceled,
     closed |-> readers[client.Reader].closed]

\* A read that does not wait for a message.
Available_nowait(r) == ~r.closed

\* A message is waiting at the reader's cursor.
Available(r) == ~r.closed /\ r.pos >= 0 /\ r.pos < high[r.partition]

\* ConsumerPull returns: with io.EOF on a closed reader, with the context's
\* error once it is canceled, or with the message at the cursor, which moves
\* the cursor on (and, in a consumer group, commits) before the body is decoded.
ConsumerPullReturn ==
    /\ pull.pc = "pulling"
    /\ LET r == readers[client.Reader]
       IN  \/ /\ r.closed
              /\ last' = Pulled("error reading message", -1, NoBody, <<>>,
                                TRUE, FALSE)
              /\ UNCHANGED <<readers, committed>>
           \/ /\ ~r.closed
              /\ pull.canceled
              /\ last' = Pulled("error reading message", -1, NoBody, <<>>,
                                TRUE, Available(r))
              /\ UNCHANGED <<readers, committed>>
           \/ /\ Available(r)
              /\ \E body \in Bodies :
                    LET d == Unmarshal(body)
                    IN  last' = Pulled(IF d.err = "nil" THEN "nil"
                                       ELSE "error unmarshalling message",
                                       r.pos, body, d.Value, d.isNil, TRUE)
              /\ readers' = [readers EXCEPT ![client.Reader].pos = @ + 1]
              /\ committed' = IF r.group # ""
                              THEN [committed EXCEPT ![r.partition] = r.pos + 1]
                              ELSE committed
    /\ pull' = IdlePull
    /\ UNCHANGED <<impl, client, low, high, hc, fault, pulls,
                   produced>>

-----------------------------------------------------------------------------
(* HealthCheck *)

Max(a, b) == IF a >= b THEN a ELSE b
Min(a, b) == IF a <= b THEN a ELSE b

\* A ticker whose first tick is due at the start of the call.
NextTick_immediate(h) ==
    IF h.dials = 0
    THEN 0
    ELSE ((h.lastRecv \div TickInterval) + 1) * TickInterval

\* The ticker fires every TickInterval from the start of the call and keeps
\* at most one tick for a receiver that is busy: the next tick to be received
\* is the first one after the last receive.
NextTick(h) == ((h.lastRecv \div TickInterval) + 1) * TickInterval

\* time.After(HealthcheckTimeout): due at once when the timeout is not positive.
Deadline(c) == Max(c.HealthcheckTimeout, 0)

\* The instant the select statement proceeds: now, when a channel is ready,
\* else the earlier of the next tick and the deadline.
Wake(h, c) ==
    IF NextTick(h) <= h.now \/ Deadline(c) <= h.now
    THEN h.now
    ELSE Min(NextTick(h), Deadline(c))

\* A loop that treats a failed partition listing like a failed dial.
Probe_retryListing(h, at, d) ==
    LET h1 == [h EXCEPT !.dials = @ + 1, !.lastRecv = at, !.lastDialAt = at,
                        !.now = at + d,
                        !.slow = @ \/ d >= TickInterval,
                        !.durs = Append(@, d)]
    IN  IF h1.dials <= h.N
        THEN [h1 EXCEPT !.err = "dial error"]
        ELSE IF h.listOK
        THEN [h1 EXCEPT !.err = "nil", !.pc = "returned",
                        !.result = "success", !.conns = @ + 1]
        ELSE [h1 EXCEPT !.err = "list error", !.conns = @ + 1]

\* The ticker case of the loop at instant at: one dial taking d milliseconds.
\* The broker refuses the first h.N dials and accepts the next; a refused
\* dial leaves err set and the loop goes on, an accepted one yields a
\* connection and is followed by ReadPartitions, and the call returns either
\* way.
Probe(h, at, d) ==
    LET h1 == [h EXCEPT !.dials = @ + 1, !.lastRecv = at, !.lastDialAt = at,
                        !.now = at + d,
                        !.slow = @ \/ d >= TickInterval,
                        !.durs = Append(@, d)]
    IN  IF h1.dials <= h.N
        THEN [h1 EXCEPT !.err = "dial error"]
        ELSE IF h.listOK
        THEN [h1 EXCEPT !.err = "nil", !.pc = "returned",
                        !.result = "success", !.conns = @ + 1]
        ELSE [h1 EXCEPT !.err = "list error", !.pc = "returned",
                        !.result = "PartitionListFailed", !.conns = @ + 1]

\* The deferred calls of a return: conn.Close for the connection of an
\* accepted dial, and ticker.Stop.
RunDeferred(h) == [h EXCEPT !.conns = 0, !.ticker = "stopped"]

\* The state of the call after a round of the loop: the runtime fires the
\* timer once its instant has come, whether or not the call still waits for
\* it, and a call that returns runs its deferred calls. Nothing stops the
\* timer.
Settle(h, c) ==
    LET h1 == [h EXCEPT !.timer = IF Deadline(c) <= h.now THEN "fired" ELSE @]
    IN  IF h1.pc = "returned" THEN RunDeferred(h1) ELSE h1

\* What becomes of a timer that is still pending when the call returns is up
\* to the toolchain: before Go 1.23 the runtime keeps it until it fires, from
\* Go 1.23 on it may be collected once the call no longer refers to it.
Outcomes(h) ==
    IF h.pc = "returned" /\ h.timer = "pending"
    THEN {h, [h EXCEPT !.timer = "collected"]}
    ELSE {h}

\* HealthCheck is called against a broker that refuses the first N dials and
\* whose partition listing then succeeds or not. It builds the dialer first
\* and returns at once when that fails.
\* An entry that goes on to the loop whatever NewConnection returned.
HealthCheckEntry_ignoreInit(init, N, listOK) ==
    Settle([IdleHC EXCEPT !.pc = "probing", !.timer = "pending",
                          !.ticker = "running", !.N = N, !.listOK = listOK],
           init.client)

\* The call up to the loop, given what NewConnection returned: an error ends
\* the call before the timer and the ticker are created.
HealthCheckEntry(init, N, listOK) ==
    IF init.err # "nil"
    THEN [IdleHC EXCEPT !.pc = "returned", !.result = "InitFailed",
                        !.N = N, !.listOK = listOK]
    ELSE Settle([IdleHC EXCEPT !.pc = "probing", !.timer = "pending",
                               !.ticker = "running",
                               !.N = N, !.listOK = listOK],
                init.client)

HealthCheck(N, listOK) ==
    /\ Ready
    /\ LET init == NewConnection(client)
       IN  /\ client' = init.client
           /\ hc' = HealthCheckEntry(init, N, listOK)
    /\ last' = [op |-> "HealthCheck", err |-> "pending"]
    /\ UNCHANGED <<impl, readers, low, high, committed, pull, fault,
                   pulls, produced>>

\* HealthCheck is called again after a call that returned, against a broker
\* that behaves as it did for that call; the call that returned is kept.
HealthCheckAgain ==
    /\ Ready
    /\ hc.pc = "returned"
    /\ LET init == NewConnection(client)
       IN  /\ client' = init.client
           /\ hc' = HealthCheckEntry(init, hc.N, hc.listOK)
    /\ last' = [op |-> "HealthCheck", err |-> hc.err, run |-> hc]
    /\ UNCHANGED <<impl, readers, low, high, committed, pull, fault,
                   pulls, produced>>

\* One round of the select loop: it waits until the deadline or a tick is
\* due; when both are, either case may be taken.
HealthCheckSelect ==
    /\ hc.pc = "probing"
    /\ LET at == Wake(hc, client)
           h == [hc EXCEPT !.tied = @ \/ Deadline(client) = NextTick(hc)]
       IN  \/ /\ Deadline(client) <= at
              /\ hc' \in Outcomes(Settle([h EXCEPT
                                              !.now = at, !.pc = "returned",
                                              !.result = "HealthCheckTimeout"],
                                          client))
           \/ /\ NextTick(hc) <= at
              /\ \E d \in DialDurations :
                    hc' \in Outcomes(Settle(Probe(h, at, d), client))
    /\ UNCHANGED <<impl, client, readers, low, high, committed, pull,
                   last, fault, pulls, produced>>

-----------------------------------------------------------------------------
(* IsTopicExists (part_000) *)

\* What the cluster may do with a metadata request: fail, or answer with a
\* list of up to two topics.
MetadataAnswers ==
    {[err |-> "metadata error", Topics |-> <<>>]}
      \cup {[err |-> "nil", Topics |-> ts] :
               ts \in {<<>>} \cup {<<a>> : a \in ListedNames}
                        \cup {<<a, b>> : a, b \in ListedNames}}

\* A comparison of topic names that ignores letter case.
NameEquals_fold(a, b) ==
    LET fold(n) == IF n = "T2" THEN "t2" ELSE n
    IN  fold(a) = fold(b)

\* topic.Name == topicName: string equality.
NameEquals(a, b) == a = b

\* The loop over meta.Topics from index i on: true at the first name that
\* equals topicName, false when the list is exhausted.
RECURSIVE ScanTopics(_, _, _)
ScanTopics(topics, topicName, i) ==
    IF i > Len(topics) THEN FALSE
    ELSE IF NameEquals(topics[i], topicName) THEN TRUE
    ELSE ScanTopics(topics, topicName, i + 1)

\* The record of an IsTopicExists call that returned: requests is the number
\* of metadata requests it sent, answer what the cluster did with the request.
TopicChecked(topicName, answer, requests, exists, err) ==
    [op |-> "IsTopicExists", err |-> err, topicName |-> topicName,
     answer |-> answer, requests |-> requests, exists |-> exists]

\* IsTopicExists: the mechanism is built first and an unsupported one ends
\* the call; then one Metadata request is sent through a kafka.Client of the
\* call's own, and its error or the result of the scan is returned. No field
\* of the client is written.
IsTopicExists(topicName, answer) ==
    /\ impl = "part_000"
    /\ Ready
    /\ LET m == IF client.SaslMechanisms # ""
                THEN getSASLMechanism(client)
                ELSE [mechanism |-> "", err |-> "nil"]
       IN  last' = IF m.err # "nil"
                   THEN TopicChecked(topicName, answer, 0, FALSE,
                                     "unable to get sasl mechanism")
                   ELSE IF answer.err # "nil"
                   THEN TopicChecked(topicName, answer, 1, FALSE,
                                     "unable to get metadata")
                   ELSE TopicChecked(topicName, answer, 1,
                                     ScanTopics(answer.Topics, topicName, 1),
                                     "nil")
    /\ hc' = IdleHC
    /\ UNCHANGED <<impl, client, readers, low, high, committed, pull, fault,
                   pulls, produced>>

-----------------------------------------------------------------------------
(* Sessions *)

\* The process is started again with the same options: a new client with no
\* reader bound. The readers of the old process are gone with it; what the
\* broker holds stays.
NewSession ==
    /\ fault # "none" \/ Ready
    /\ readers # <<>> \/ fault # "none"
    /\ readers' = <<>>
    /\ client' = NewKafkaClient(client)
    /\ pull' = IdlePull
    /\ hc' = IdleHC
    /\ last' = NoCall
    /\ fault' = "none"
    /\ UNCHANGED <<impl, low, high, committed, pulls, produced>>

-----------------------------------------------------------------------------
(* Specifications *)

InitWith(options, windows) ==
    /\ impl \in Editions
    /\ client \in {NewKafkaClient(o) : o \in options}
    /\ readers = <<>>
    /\ \E w \in windows : /\ low = [p \in Partitions |-> w[1]]
                          /\ high = [p \in Partitions |-> w[2]]
    /\ committed = [p \in Partitions |-> -1]
    /\ pull = IdlePull
    /\ hc = IdleHC
    /\ last = NoCall
    /\ fault = "none"
    /\ pulls = 0
    /\ produced = 0

Init ==
    InitWith(Options(SessionProtocols, SessionMechanisms, SessionTimeouts,
                     SessionLogLevels),
             WatermarkCases)

\* The operations of a session on the partitions ps with the policies as:
\* assignment, pulls and disposal against a live broker.
SessionNext(ps, as) ==
    \/ \E t \in Topics, p \in ps, a \in as, m \in TimestampModes :
          TopicAssign_part000(t, p, a, m)
    \/ \E t \in Topics, p \in ps, a \in as, m \in TimestampModes :
          TopicAssign_client(t, p, a, m)
    \/ CallNewConnection
    \/ Dispose_part000
    \/ Dispose_client
    \/ ConsumerPull
    \/ Cancel
    \/ ConsumerPullReturn
    \/ \E i \in 1 .. Len(readers) : ReaderStart(i)
    \/ \E p \in ps : Produce(p)
    \/ NewSession

Next == SessionNext(SessionPartitions, SessionPolicies)

\* The session on one partition with the two named policies. HealthCheck touches the session only through
\* client.Dialer, which it sets as NewConnection does; its own course is the
\* subject of SpecHC.
Spec == Init /\ [][Next]_vars

\* Assignment and disposal alone, over every partition and policy.
NextAssign ==
    \/ \E t \in Topics, p \in Partitions, a \in Policies,
          m \in TimestampModes : TopicAssign_part000(t, p, a, m)
    \/ \E t \in Topics, p \in Partitions, a \in Policies,
          m \in TimestampModes : TopicAssign_client(t, p, a, m)
    \/ CallNewConnection
    \/ Dispose_part000
    \/ Dispose_client
    \/ \E p \in Partitions : Produce(p)
    \/ NewSession

SpecAssign == Init /\ [][NextAssign]_vars

\* The health check alone, over every timeout.
InitHC ==
    InitWith(Options(SecurityProtocols, Mechanisms, Timeouts,
                     SessionLogLevels), {<<0, 0>>})

NextHC ==
    \/ \E N \in 0 .. MaxFails, ok \in BOOLEAN : HealthCheck(N, ok)
    \/ HealthCheckSelect

SpecHC == InitHC /\ [][NextHC]_vars

\* The select statement proceeds whenever one of its channels is ready.
SpecHCLive == SpecHC /\ WF_vars(HealthCheckSelect)

\* The probes alongside a session: HealthCheck and IsTopicExists interleaved
\* with assignment and disposal, against one retained window.
ProbeMechanisms == {"", "PLAIN", "GSSAPI"}
ProbeFails == {0, 1}

InitProbes ==
    InitWith(Options(SessionProtocols, ProbeMechanisms, SessionTimeouts,
                     SessionLogLevels),
             {<<3, 5>>})

NextProbes ==
    \/ \E t \in Topics, p \in SessionPartitions, a \in Policies,
          m \in TimestampModes : TopicAssign_part000(t, p, a, m)
    \/ \E t \in Topics, p \in SessionPartitions, a \in Policies,
          m \in TimestampModes : TopicAssign_client(t, p, a, m)
    \/ Dispose_part000
    \/ Dispose_client
    \/ \E N \in ProbeFails, ok \in BOOLEAN : HealthCheck(N, ok)
    \/ HealthCheckSelect
    \/ \E n \in TopicNames, answer \in MetadataAnswers :
          IsTopicExists(n, answer)
    \/ NewSession

SpecProbes == InitProbes /\ [][NextProbes]_vars

\* HealthCheck called again and again on one client against one broker.
TwinTimeouts == {200, 300, 400}

InitTwin ==
    InitWith(Options(SessionProtocols, {"PLAIN"}, TwinTimeouts,
                     SessionLogLevels), {<<0, 0>>})

NextTwin ==
    \/ \E N \in ProbeFails, ok \in BOOLEAN : HealthCheck(N, ok)
    \/ HealthCheckSelect
    \/ HealthCheckAgain

SpecTwin == InitTwin /\ [][NextTwin]_vars

\* Readers opened under every log level.
InitLog ==
    InitWith(Options(SessionProtocols, {"PLAIN"}, SessionTimeouts, LogLevels),
             {<<3, 5>>})

NextLog ==
    \/ \E t \in Topics, m \in TimestampModes :
          TopicAssign_part000(t, 0, "latest", m)
    \/ \E t \in Topics, m \in TimestampModes :
          TopicAssign_client(t, 0, "latest", m)
    \/ Dispose_part000
    \/ Dispose_client
    \/ NewSession

SpecLog == InitLog /\ [][NextLog]_vars

-----------------------------------------------------------------------------
(* Claims about HealthCheck, checked under SpecHC *)

\* A HealthCheck call has run its probe loop to the end against a broker
\* whose listing works, and no dial held the loop for a tick interval or more.
ProbeRan ==
    /\ hc.pc = "returned"
    /\ hc.result # "InitFailed"
    /\ hc.listOK
    /\ ~hc.slow

\* C1 as stated: against a broker that refuses the first N dials and then
\* accepts, HealthCheck succeeds whenever the timeout exceeds N * 200 ms and
\* times out whenever the timeout is below N * 200 ms.
C1_AsStated ==
    ProbeRan =>
        /\ client.HealthcheckTimeout > hc.N * 200 => hc.result = "success"
        /\ client.HealthcheckTimeout < hc.N * 200 =>
               hc.result = "HealthCheckTimeout"

\* C1 amended: the first dial happens at the first tick, 200 ms into the call,
\* so the N refused dials and the accepted one take N + 1 ticks. When every
\* dial returns in less than a tick interval, HealthCheck succeeds whenever
\* the timeout exceeds (N + 1) * 200 ms and times out whenever the timeout is
\* below (N + 1) * 200 ms.
C1_TicksBeforeDeadline ==
    ProbeRan =>
        /\ client.HealthcheckTimeout > (hc.N + 1) * 200 =>
               hc.result = "success"
        /\ client.HealthcheckTimeout < (hc.N + 1) * 200 =>
               hc.result = "HealthCheckTimeout"

\* Two dials were refused, the third was accepted and the call succeeded.
C1_Witness ==
    /\ ProbeRan
    /\ hc.N = 2
    /\ hc.dials = 3
    /\ hc.result = "success"
    /\ client.HealthcheckTimeout = 700

\* C2: once a dial has succeeded and the partition listing has failed, the
\* call has returned the partition-list error: that dial was the last one,
\* made on the first tick after the refused dials, and the call ended when the
\* probe did. Refused dials alone never end the call with an error of their
\* own: before the first accepted dial the call is still probing or has timed
\* out.
C2_ListFailureEndsProbe ==
    /\ (hc.dials > hc.N /\ ~hc.listOK) =>
           /\ hc.pc = "returned"
           /\ hc.result = "PartitionListFailed"
           /\ hc.dials = hc.N + 1
           /\ hc.now - hc.lastDialAt \in DialDurations
    /\ (hc.dials > 0 /\ hc.dials <= hc.N) =>
           \/ hc.pc = "probing"
           \/ hc.result = "HealthCheckTimeout"

\* Two dials were refused, the third was accepted, the listing failed.
C2_Witness ==
    /\ hc.pc = "returned"
    /\ hc.result = "PartitionListFailed"
    /\ hc.N = 2
    /\ hc.dials = 3

\* C16 as stated, for a call that has returned: the outcome is one of the
\* four; a call that returns after the deadline has passed returns the
\* timeout; and the error the timeout wraps is that of the last dial, or nil
\* when no dial was made.
C16_AsStated ==
    hc.pc = "returned" =>
        /\ hc.result \in {"success", "InitFailed", "PartitionListFailed",
                          "HealthCheckTimeout"}
        /\ (hc.result # "InitFailed"
              /\ hc.now > (IF client.HealthcheckTimeout > 0
                           THEN client.HealthcheckTimeout ELSE 0)) =>
               hc.result = "HealthCheckTimeout"
        /\ hc.result = "HealthCheckTimeout" =>
               hc.err = IF hc.dials = 0 THEN "nil" ELSE "dial error"

\* C16, the part that holds: a call that has returned has one of the four
\* outcomes, and a timeout wraps the error of the last dial, or nil when no
\* dial was made.
C16_OutcomeAndWrappedError ==
    hc.pc = "returned" =>
        /\ hc.result \in {"success", "InitFailed", "PartitionListFailed",
                          "HealthCheckTimeout"}
        /\ hc.result = "HealthCheckTimeout" =>
               hc.err = IF hc.dials = 0 THEN "nil" ELSE "dial error"

\* C16, termination, under SpecHCLive: every call that entered the loop
\* returns.
C16_EventuallyReturns == (hc.pc = "probing") ~> (hc.pc = "returned")

\* Two calls saw the same clock readings: dial by dial, the dials both made
\* took the same time.
SameReadings(h1, h2) ==
    \A i \in 1 .. Min(Len(h1.durs), Len(h2.durs)) : h1.durs[i] = h2.durs[i]

\* C17 as stated, under SpecTwin: two HealthCheck calls on the same client
\* against the same broker (the same refused dials, the same listing) that
\* saw the same clock readings return the same result, also when a select
\* found the deadline and a tick due at the same instant.
C17_TieIsDeterministic ==
    (/\ last.op = "HealthCheck"
     /\ last.err # "pending"
     /\ hc.pc = "returned"
     /\ hc.tied \/ last.run.tied
     /\ SameReadings(last.run, hc)) => hc.result = last.run.result

\* C18 as stated: when a HealthCheck call that entered the loop has returned,
\* its timer is no longer pending, its ticker is stopped and it holds no
\* broker connection open.
C18_AsStated ==
    (hc.pc = "returned" /\ hc.result # "InitFailed") =>
        /\ hc.timer # "pending"
        /\ hc.ticker = "stopped"
        /\ hc.conns = 0

\* C18, the part that holds: on every exit path of the loop the ticker is
\* stopped and the connection of the accepted dial is closed.
C18_TickerAndConnectionsReleased ==
    (hc.pc = "returned" /\ hc.result # "InitFailed") =>
        /\ hc.ticker = "stopped"
        /\ hc.conns = 0

\* C19: on a client whose SASL mechanism is unsupported, a HealthCheck call
\* has returned the init error as soon as it was made, whatever the timeout:
\* no time has passed, no timer and no ticker were created, no dial was made
\* and no dialer was stored. No other call returns the init error.
C19_InitFailureReturnsAtOnce ==
    /\ (hc.pc # "idle" /\ client.SaslMechanisms \notin SupportedMechanisms) =>
           /\ hc.pc = "returned"
           /\ hc.result = "InitFailed"
           /\ hc.now = 0
           /\ hc.dials = 0
           /\ hc.timer = "none"
           /\ hc.ticker = "none"
           /\ ~client.Dialer.set
    /\ hc.result = "InitFailed" =>
           client.SaslMechanisms \notin SupportedMechanisms

\* The init error was returned under the longest timeout.
C19_Witness ==
    /\ hc.pc = "returned"
    /\ hc.result = "InitFailed"
    /\ client.SaslMechanisms = "GSSAPI"
    /\ client.HealthcheckTimeout = MaxTimeoutSteps * 100
    /\ hc.N > 0

-----------------------------------------------------------------------------
(* Claims about the session, checked under Spec *)

\* A step of TopicAssign, in either edition.
AssignStep(t, p, a, m) ==
    TopicAssign_part000(t, p, a, m) \/ TopicAssign_client(t, p, a, m)

\* The readers that were opened and are not closed.
ActiveReaders == {i \in 1 .. Len(readers) : ~readers[i].closed}

\* C3 as stated: Dispose never faults, also on a client on which TopicAssign
\* never succeeded.
C3_DisposeNeverFaults == fault # "Dispose: nil Reader"

\* C4 as stated: at most one reader opened by the session is active.
C4_AtMostOneActiveReader == Cardinality(ActiveReaders) <= 1

\* C5 as stated: a TopicAssign with policy "earliest" that returns without
\* error has read the watermarks from the leader and opens the reader at low
\* when high - low <= 100 and at high - 100 when high - low > 100.
C5_AsStated ==
    [][\A t \in Topics, p \in Partitions, m \in TimestampModes :
          (AssignStep(t, p, "earliest", m) /\ fault' = "none"
             /\ last'.err = "nil") =>
              /\ last'.dials = 2
              /\ readers'[client'.Reader].pos =
                     IF high[p] - low[p] > 100 THEN high[p] - 100 ELSE low[p]
      ]_vars

\* C5 amended: in the edition with the bounded lookback (part_000), a
\* TopicAssign with policy "earliest" that returns without error has made the
\* two round trips to the leader and leaves a newly opened reader bound at
\* low when high - low <= 100 and at high - 100 when high - low > 100. In the
\* other edition (client.go) it makes no round trip and the reader is
\* configured with the FirstOffset sentinel.
C5_BoundedLookback ==
    [][\A t \in Topics, p \in Partitions, m \in TimestampModes :
          (AssignStep(t, p, "earliest", m) /\ fault' = "none"
             /\ last'.err = "nil") =>
              /\ client'.Reader = Len(readers) + 1
              /\ Len(readers') = Len(readers) + 1
              /\ impl = "part_000" =>
                     /\ last'.dials = 2
                     /\ readers'[client'.Reader].pos =
                            IF high[p] - low[p] > 100
                            THEN high[p] - 100 ELSE low[p]
              /\ impl = "client.go" =>
                     /\ last'.dials = 0
                     /\ readers'[client'.Reader].pos = -2
      ]_vars

\* A bounded-lookback assignment over a window wider than 100 messages has
\* bound a reader 100 messages behind the high watermark.
C5_Witness ==
    /\ impl = "part_000"
    /\ last.op = "TopicAssign"
    /\ last.policy = "earliest"
    /\ last.err = "nil"
    /\ high[last.partition] - low[last.partition] > 100
    /\ last.offset = high[last.partition] - 100
    /\ readers[client.Reader].pos = last.offset

\* C6: a TopicAssign with a policy other than "earliest" makes no round trip
\* to the broker while it resolves the offset, and the reader it opens is
\* given the "next offset to be written" sentinel (kafka.LastOffset, -1). In
\* part_000 such a call always opens the reader.
C6_NoRoundTripForLatest ==
    [][\A t \in Topics, p \in Partitions, m \in TimestampModes,
          a \in Policies \ {"earliest"} :
          (AssignStep(t, p, a, m) /\ fault' = "none") =>
              /\ last'.dials = 0
              /\ last'.err = "nil" =>
                     /\ Len(readers') = Len(readers) + 1
                     /\ client'.Reader = Len(readers')
                     /\ readers'[client'.Reader].pos = -1
              /\ impl = "part_000" => last'.err = "nil"
      ]_vars

\* An assignment with an unrecognized policy has bound a reader at the
\* sentinel.
C6_Witness ==
    /\ last.op = "TopicAssign"
    /\ last.policy = "newest"
    /\ last.err = "nil"
    /\ last.dials = 0
    /\ readers[client.Reader].pos = -1

\* C7: when the dial of the leader or the read of the watermarks fails in a
\* TopicAssign with policy "earliest", the call returns an error, opens no
\* reader and leaves the bound reader what it was.
C7_FailedResolutionOpensNoReader ==
    [][\A t \in Topics, p \in Partitions, m \in TimestampModes :
          (TopicAssign_part000(t, p, "earliest", m) /\ fault' = "none"
             /\ last'.answer \in {"dial_error", "read_error"}) =>
              /\ last'.err # "nil"
              /\ readers' = readers
              /\ client'.Reader = client.Reader
      ]_vars

\* The read of the watermarks failed on a session that had a reader bound,
\* and that reader is still bound.
C7_Witness ==
    /\ last.op = "TopicAssign"
    /\ last.answer = "read_error"
    /\ last.err = "unable to read offsets"
    /\ client.Reader # NoReader
    /\ Len(readers) = 1

\* C8 as stated: no reader joins a consumer group and no offset is ever
\* committed.
C8_NoGroupNoCommit ==
    /\ \A i \in 1 .. Len(readers) : readers[i].group = ""
    /\ \A p \in Partitions : committed[p] = -1

\* C9 as stated: a pull that read a message whose body is not a flat
\* string-to-number object returned a decode error.
C9_AsStated ==
    (last.op = "ConsumerPull" /\ last.fetched >= 0
       /\ ~IsFlatNumeric(last.body)) => last.err # "nil"

-----------------------------------------------------------------------------
(* Claims about credentials and assignment, checked under SpecAssign *)

\* C11 as stated, for TopicAssign: on a client configured with a SASL
\* mechanism outside "", PLAIN, SCRAM-SHA-256 and SCRAM-SHA-512, every
\* TopicAssign call returns an error, makes no round trip to the broker and
\* opens no reader.
C11_AsStated ==
    [][\A t \in Topics, p \in Partitions, a \in Policies, m \in TimestampModes :
          (AssignStep(t, p, a, m)
             /\ client.SaslMechanisms \notin SupportedMechanisms) =>
              /\ fault' = "none"
              /\ last'.err # "nil"
              /\ last'.dials = 0
              /\ readers' = readers
      ]_vars

\* C15 as stated: a TopicAssign call never dereferences an unset dialer,
\* whatever was called before it and whatever the policy; when it returns
\* without error it has built the dialer itself and the reader it opened is
\* bound to the topic, the partition and the resolved offset of the call.
C15_AsStated ==
    [][\A t \in Topics, p \in Partitions, a \in Policies, m \in TimestampModes :
          AssignStep(t, p, a, m) =>
              /\ fault' # "TopicAssign: nil Dialer"
              /\ (fault' = "none" /\ last'.err = "nil") =>
                     /\ client'.Dialer.set
                     /\ client'.Reader = Len(readers')
                     /\ readers'[client'.Reader].topic = t
                     /\ readers'[client'.Reader].partition = p
                     /\ readers'[client'.Reader].pos = last'.offset
      ]_vars

\* C20 as stated: a TopicAssign call that returns an error leaves the bound
\* reader, the timestamp mode and the dialer of the client what they were,
\* and opens no reader.
C20_FailedAssignChangesNothing ==
    [][\A t \in Topics, p \in Partitions, a \in Policies, m \in TimestampModes :
          (AssignStep(t, p, a, m) /\ fault' = "none" /\ last'.err # "nil") =>
              /\ client'.Reader = client.Reader
              /\ client'.TimestampMode = client.TimestampMode
              /\ client'.Dialer = client.Dialer
              /\ readers' = readers
      ]_vars

\* C20, the part that holds: a TopicAssign call that returns an error leaves
\* the bound reader and the dialer what they were and opens no reader.
C20_FailedAssignKeepsReaderAndDialer ==
    [][\A t \in Topics, p \in Partitions, a \in Policies, m \in TimestampModes :
          (AssignStep(t, p, a, m) /\ fault' = "none" /\ last'.err # "nil") =>
              /\ client'.Reader = client.Reader
              /\ client'.Dialer = client.Dialer
              /\ readers' = readers
      ]_vars

-----------------------------------------------------------------------------
(* Claims about the probes, checked under SpecProbes *)

\* C12: an IsTopicExists call whose credentials were built sends exactly one
\* metadata request (a call with an unsupported mechanism sends none and
\* returns an error). When the request is answered, the call returns without
\* error and its result is true exactly when some topic of the answer has the
\* name asked for; when the request fails, the call returns an error and
\* false, having sent that one request only.
C12_ExactNameMatch ==
    last.op = "IsTopicExists" =>
        /\ last.requests =
               IF client.SaslMechanisms \in SupportedMechanisms THEN 1 ELSE 0
        /\ (last.requests = 1 /\ last.answer.err = "nil") =>
               /\ last.err = "nil"
               /\ last.exists =
                      (\E i \in 1 .. Len(last.answer.Topics) :
                          last.answer.Topics[i] = last.topicName)
        /\ (last.requests = 0 \/ last.answer.err # "nil") =>
               /\ last.err # "nil"
               /\ last.exists = FALSE

\* The cluster listed "t1" and "T2" and the call said that "T2" exists.
C12_Witness ==
    /\ last.op = "IsTopicExists"
    /\ last.answer.Topics = <<"t1", "T2">>
    /\ last.topicName = "T2"
    /\ last.exists = TRUE
    /\ last.requests = 1

\* A step of one of the two probes: the entry or a round of HealthCheck, or
\* an IsTopicExists call.
ProbeStep ==
    \/ \E N \in ProbeFails, ok \in BOOLEAN : HealthCheck(N, ok)
    \/ HealthCheckSelect
    \/ \E n \in TopicNames, answer \in MetadataAnswers :
          IsTopicExists(n, answer)

\* C13 as stated: no step of HealthCheck or IsTopicExists changes the bound
\* reader, the timestamp mode, the dial capability or a configuration field
\* of the client, nor any reader the session opened.
C13_ProbesAreStateless ==
    [][ProbeStep => (client' = client /\ readers' = readers)]_vars

-----------------------------------------------------------------------------
(* Claims about the log sinks, checked under SpecLog *)

\* The level is the word written in some letter case: letter by letter it is
\* the lower-case or the upper-case letter of the word.
InAnyCase(level, lower, upper) ==
    /\ Len(level) = Len(lower)
    /\ \A i \in 1 .. Len(level) : level[i] \in {lower[i], upper[i]}

\* C14: every reader is given the sinks of the client's log level: for
\* "debug" in any letter case the debug sink and the error sink, for "error"
\* in any letter case the error sink only, for every other level neither.
C14_LogSinksByLevel ==
    \A i \in 1 .. Len(readers) :
        LET isDebug == InAnyCase(client.LogLevel, <<"d", "e", "b", "u", "g">>,
                                 <<"D", "E", "B", "U", "G">>)
            isError == InAnyCase(client.LogLevel, <<"e", "r", "r", "o", "r">>,
                                 <<"E", "R", "R", "O", "R">>)
        IN  /\ readers[i].Logger = IF isDebug THEN "debug" ELSE "noop"
            /\ readers[i].ErrorLogger =
                   IF isDebug \/ isError THEN "error" ELSE "noop"

\* A reader opened under the level "DeBuG" has both sinks.
C14_Witness ==
    /\ client.LogLevel = <<"D", "e", "B", "u", "G">>
    /\ Len(readers) > 0
    /\ readers[1].Logger = "debug"
    /\ readers[1].ErrorLogger = "error"

=============================================================================
